---- MODULE Spec2Model ----
(***************************************************************************)
(* Model of src/app.py, the "Chat with Your CSV Data" Streamlit page.      *)
(*                                                                         *)
(* The page is a script that Streamlit runs from top to bottom once per    *)
(* user interaction.  What survives from one run to the next is the        *)
(* session state (st.session_state.messages, the chat History), the        *)
(* process environment, and the widgets of the page in the browser with    *)
(* their values (the uploaded file, the text of the query box).  A button  *)
(* is True only in the run its click triggers.                             *)
(*                                                                         *)
(* A run is the sequence of statements on the path the script takes for    *)
(* its inputs.  Every st.* call and every st.session_state access is a     *)
(* yield point: when another interaction of the session has arrived,       *)
(* Streamlit abandons the run there, before that call or access takes      *)
(* effect, and starts the run of the new interaction.  The widgets of an   *)
(* abandoned run stay on the page together with those the page had         *)
(* before; a run that completes leaves exactly the widgets it created,     *)
(* and the value of a widget it did not create is forgotten.  st.rerun()   *)
(* ends the run and asks for another one with every button False.          *)
(*                                                                         *)
(* One action of the model is one user interaction (or the run asked for   *)
(* by st.rerun()) together with the script run it causes, up to the place  *)
(* where that run ends.  An interaction is offered only when its widget    *)
(* is on the page.                                                         *)
(*                                                                         *)
(* Text is modelled as a sequence of strings: a query is a sequence of     *)
(* one-character strings (so that str.strip() is computed, not assumed),   *)
(* the prompts are sequences of fragments.                                 *)
(***************************************************************************)
EXTENDS Integers, Sequences, FiniteSets, TLC

\* ----------------------------------------------------------------- bounds
\* Longest History for which the model still offers a non-empty Ask.
MaxMessages == 4

\* ------------------------------------------------------------ text values
\* The characters str.strip() removes: those for which str.isspace() is
\* true.  A character without a TLA+ escape is written by its name or code
\* point: VT U+000B, FS..US U+001C..U+001F, NEL U+0085, NBSP U+00A0,
\* IDEOSP U+3000.
Whitespace ==
    {" ", "\t", "\n", "\r", "\f", "VT", "FS", "GS", "RS", "US", "NEL", "NBSP",
     "U+1680", "U+2000", "U+2001", "U+2002", "U+2003", "U+2004", "U+2005",
     "U+2006", "U+2007", "U+2008", "U+2009", "U+200A", "U+2028", "U+2029",
     "U+202F", "U+205F", "IDEOSP"}

\* The texts the user types into the query box: empty, blank (a space and a
\* no-break space), and a question padded with whitespace on both sides.
Queries ==
    {<<>>, <<" ", "NBSP">>, <<" ", "a", "\t">>}

\* The texts the collaborator answers with.
Answers == {<<"4", "2">>, <<"7">>}

\* What llm.invoke does when it is called: return a response with the given
\* content, or raise.
LLMBehaviours ==
    [raises : {FALSE}, content : Answers] \cup [raises : {TRUE}, content : {<<>>}]

\* str.lstrip(): drop leading whitespace.
RECURSIVE LStrip(_)
LStrip(s) ==
    IF s # <<>> /\ Head(s) \in Whitespace THEN LStrip(Tail(s)) ELSE s

\* str.rstrip(): drop trailing whitespace.
RECURSIVE RStrip(_)
RStrip(s) ==
    IF s # <<>> /\ s[Len(s)] \in Whitespace
    THEN RStrip(SubSeq(s, 1, Len(s) - 1))
    ELSE s

\* str.strip()
Strip(s) == RStrip(LStrip(s))

\* ------------------------------------------------------------- the upload
NoFile == [name |-> "", parses |-> FALSE, columns |-> <<>>, dtypes |-> <<>>,
           rows |-> <<>>]

SalesCsv == [name |-> "sales.csv", parses |-> TRUE,
             columns |-> <<"region", "sales">>,
             dtypes |-> <<"object", "int64">>,
             rows |-> <<"N 10", "S 20", "E 30">>]

PeopleCsv == [name |-> "people.csv", parses |-> TRUE,
              columns |-> <<"name", "member">>,
              dtypes |-> <<"object", "bool">>,
              rows |-> <<"ann True">>]

BrokenCsv == [name |-> "broken.csv", parses |-> FALSE, columns |-> <<>>,
              dtypes |-> <<>>, rows |-> <<>>]

Files == {SalesCsv, PeopleCsv, BrokenCsv}

\* The values of OPENAI_API_KEY, in os.environ or in the .env file: unset
\* (written "None" here, what os.getenv returns then), else its text, which
\* may be empty.
ApiKeys == {"None", "", "sk-test"}

\* load_dotenv(): a variable the .env file sets is put into os.environ
\* unless os.environ holds it already.  The result is os.environ's value
\* afterwards, which is what os.getenv("OPENAI_API_KEY") returns.
load_dotenv(environ, dotenv) == IF environ = "None" THEN dotenv ELSE environ

\* The chart kinds of the Chart Builder.
ChartTypes == {"Bar", "Line", "Scatter", "Pie", "Histogram", "Box Plot"}

\* df.select_dtypes(include=['number']).columns.tolist()
numeric_cols(df) ==
    SelectSeq(df.columns,
              LAMBDA c : \E i \in DOMAIN df.columns :
                            df.columns[i] = c /\ df.dtypes[i] \in {"int64", "float64"})

SeqRange(s) == {s[i] : i \in DOMAIN s}

\* No Generate Chart click in the run.
NoChart == [clicked |-> FALSE, chart_type |-> "Bar", x_axis |-> "", y_axis |-> "",
            raises |-> FALSE]

\* Series.plot(kind="bar" / "line" / "pie") raises when the sums it is given
\* are not numbers: the sum of a text column is text, the sum of a bool
\* column is an integer.
MustRaise(df, chart) ==
    /\ chart.chart_type \in {"Bar", "Line", "Pie"}
    /\ \E i \in DOMAIN df.columns :
          df.columns[i] = chart.y_axis /\ df.dtypes[i] = "object"

\* The Generate Chart clicks the page offers for a table: a chart kind, an
\* X column among all columns, a Y column among the numeric ones (all
\* columns when there is none), and whether the plotting code raises.
ChartClicks(df) ==
    LET ys == IF numeric_cols(df) # <<>> THEN numeric_cols(df) ELSE df.columns
    IN  {c \in [clicked : {TRUE}, chart_type : ChartTypes,
                x_axis : SeqRange(df.columns), y_axis : SeqRange(ys),
                raises : BOOLEAN] : MustRaise(df, c) => c.raises}

\* Number of rows df.head(10) keeps.
HeadRows == 10

SYSTEM_PROMPT ==
    <<"You are an expert data analyst. Analyze the data and answer questions accurately.",
      "When asked about data, provide clear, concise answers based only on the information available.",
      "If asked to perform calculations, show your work.">>

Min(a, b) == IF a < b THEN a ELSE b

RECURSIVE Join(_, _)
Join(names, sep) ==
    IF names = <<>> THEN <<>>
    ELSE IF Len(names) = 1 THEN names
    ELSE <<Head(names), sep>> \o Join(Tail(names), sep)

\* pd.read_csv(uploaded_file): the table, or an exception.
read_csv(file) ==
    IF file.parses
    THEN [raised |-> FALSE,
          df |-> [columns |-> file.columns, dtypes |-> file.dtypes, rows |-> file.rows]]
    ELSE [raised |-> TRUE, df |-> [columns |-> <<>>, dtypes |-> <<>>, rows |-> <<>>]]

\* The f-string data_summary: shape, column names, types, head rows and the
\* describe() table (rendered here by its count row).
data_summary(df) ==
    <<"Dataset Information:", "- Shape:", ToString(Len(df.rows)), "rows,",
      ToString(Len(df.columns)), "columns", "- Columns:">>
    \o Join(df.columns, ", ")
    \o <<"- Data types:">> \o df.dtypes
    \o <<"First few rows:">> \o SubSeq(df.rows, 1, Min(Len(df.rows), HeadRows))
    \o <<"Summary statistics:", "count", ToString(Len(df.rows))>>

Message(role, content) == [role |-> role, content |-> content]

\* Variant of LLMMessages: the data profile placed before the instruction.
LLMMessagesSwapped(df, query) ==
    << Message("system", <<"Here's the data you're analyzing:">> \o data_summary(df)),
       Message("system", SYSTEM_PROMPT),
       Message("user", query) >>

\* Variant of LLMMessages: the trimmed question sent instead of the typed one.
LLMMessagesStripped(df, query) ==
    << Message("system", SYSTEM_PROMPT),
       Message("system", <<"Here's the data you're analyzing:">> \o data_summary(df)),
       Message("user", Strip(query)) >>

\* The list `messages` handed to llm.invoke: the instruction, the labelled
\* data summary, and the question as typed.
LLMMessages(df, query) ==
    << Message("system", SYSTEM_PROMPT),
       Message("system", <<"Here's the data you're analyzing:">> \o data_summary(df)),
       Message("user", query) >>

\* Variant of KeyPresent: `if api_key is not None:`.
KeySetButEmptyAccepted(key) == key # "None"

\* `if api_key:` -- None and the empty string are falsy.
KeyPresent(key) == key \notin {"None", ""}

\* `if uploaded_file:` -- no file gives None, an uploaded file is truthy.
FilePresent(file) == file # NoFile

\* Variant of QueryGiven: `if ask_button and query:`.
QueryNotStrippedBeforeTest(query) == query # <<>>

\* `query.strip()` used as a condition: true for a non-empty string.
QueryGiven(query) == Strip(query) # <<>>

\* Variant of AppendMessage: messages.insert(0, ...).
PrependMessage(msgs, role, content) == <<Message(role, content)>> \o msgs

\* st.session_state.messages.append({"role": ..., "content": ...})
AppendMessage(msgs, role, content) == Append(msgs, Message(role, content))

\* response = llm.invoke(messages); answer = response.content
\* calls: the invocations made; raised: whether the statement raised.
Invoke(request, behaviour) ==
    [calls |-> <<request>>,
     raised |-> behaviour.raises,
     answer |-> behaviour.content]

Alert(kind, text) == [kind |-> kind, text |-> text]

\* ------------------------------------------------------- the script's path
\* A statement on the path of a run: the source lines it stands for, what it
\* does, and the value it does it with.  One "yield" statement stands for
\* consecutive st.* calls (or st.session_state reads) whose only effect is
\* that the run can be abandoned at each of them.
Stmt(lines, op, arg) == [lines |-> lines, op |-> op, arg |-> arg]

Yield(lines) == Stmt(lines, "yield", <<>>)

\* st.error / st.info / st.success / st.warning / st.write
Notice(line, kind, text) == Stmt(<<line>>, "notice", Alert(kind, text))

\* A widget created by the run.
Widget(line, name) == Stmt(<<line>>, "widget", name)

\* The statements that are yield points: all but llm.invoke, which is no
\* Streamlit call, and st.rerun(), which ends the run itself.
Yields(stmt) == stmt.op \notin {"invoke", "rerun"}

\* The body of `if ask_button and query.strip():`.  The user entry is
\* appended before the try block; the except branch only reports the error.
\* The spinner is entered at 111 and left after the try statement.
AskHandler(df, query, behaviour) ==
    LET call == Invoke(LLMMessages(df, query), behaviour)
    IN  << Stmt(<<106>>, "append", Message("user", query)),
           Yield(<<111>>),
           Stmt(<<135>>, "invoke", call.calls) >>
        \o (IF call.raised
            THEN << Notice(149, "error", <<"Error">>),
                    Notice(150, "info",
                           <<"Try rephrasing your question or check your API key.">>) >>
            ELSE << Stmt(<<139>>, "append", Message("assistant", call.answer)),
                    Notice(145, "success", <<"Answer:">>),
                    Notice(146, "write", call.answer) >>)
        \o << Yield(<<111>>) >>

\* The value assigned at line 99: messages = [].
ClearHandler(msgs) == <<>>

\* The body of `if clear_button:`.
ClearBranch ==
    << Stmt(<<99>>, "clear", <<>>),
       Notice(100, "success", <<"Chat history cleared!">>),
       Stmt(<<101>>, "rerun", <<>>) >>

\* The loop of the "Chat History" block from entry i on: one line per entry
\* and a divider between entries; len(st.session_state.messages) is read
\* once per entry.
RECURSIVE HistoryLines(_, _)
HistoryLines(msgs, i) ==
    IF i > Len(msgs) THEN <<>>
    ELSE LET line == IF msgs[i].role = "user"
                     THEN Stmt(<<160>>, "history", Alert("You", msgs[i].content))
                     ELSE Stmt(<<162>>, "history", Alert("Assistant", msgs[i].content))
             rule == IF i < Len(msgs)
                     THEN <<Stmt(<<164>>, "history", Alert("divider", <<>>))>>
                     ELSE <<>>
         IN  <<line, Yield(<<163>>)>> \o rule \o HistoryLines(msgs, i + 1)

\* The "Chat History" block: nothing at all for an empty History.
DisplayHistory(msgs) ==
    IF msgs # <<>>
    THEN << Yield(<<156>>),
            Stmt(<<157>>, "history", Alert("subheader", <<"Chat History">>)),
            Yield(<<158>>) >>
         \o HistoryLines(msgs, 1)
    ELSE << Yield(<<156>>) >>

\* The Chart Builder: the selectors, the Generate Chart button and the body
\* of `if st.button("Generate Chart"):`, where the chart is drawn or the
\* except branch reports that it could not be.
ChartSection(df, chart) ==
    << Yield(<<167, 169, 170, 177, 178, 184>>), Widget(186, "chart") >>
    \o (IF ~chart.clicked THEN <<>>
        ELSE IF chart.raises
        THEN << Notice(237, "error", <<"Could not generate chart">>),
                Notice(238, "info", <<"Try selecting different columns or chart type.">>) >>
        ELSE << Yield(<<234>>) >>)

\* What a run has done so far.  outcome is "interrupted" until the run ends
\* by itself.
Started(state) ==
    [state |-> state, llm_calls |-> <<>>, alerts |-> <<>>, history_view |-> <<>>,
     created |-> {}, cleared |-> FALSE, rerun |-> FALSE, outcome |-> "interrupted"]

\* The effect of one statement.
Apply(rs, stmt) ==
    CASE stmt.op = "yield" -> rs
      [] stmt.op = "notice" -> [rs EXCEPT !.alerts = Append(@, stmt.arg)]
      [] stmt.op = "history" -> [rs EXCEPT !.history_view = Append(@, stmt.arg)]
      [] stmt.op = "widget" -> [rs EXCEPT !.created = @ \cup {stmt.arg}]
      [] stmt.op = "init" ->
            [rs EXCEPT !.state = [has_messages |-> TRUE, messages |-> <<>>]]
      [] stmt.op = "clear" ->
            [rs EXCEPT !.state.messages = ClearHandler(@), !.cleared = TRUE]
      [] stmt.op = "append" ->
            [rs EXCEPT !.state.messages =
                           AppendMessage(@, stmt.arg.role, stmt.arg.content)]
      [] stmt.op = "invoke" -> [rs EXCEPT !.llm_calls = @ \o stmt.arg]
      [] stmt.op = "rerun" -> [rs EXCEPT !.rerun = TRUE]

\* The effect of the statements from the i-th on, all executed.
RECURSIVE Effects(_, _, _)
Effects(stmts, i, rs) ==
    IF i > Len(stmts) THEN rs ELSE Effects(stmts, i + 1, Apply(rs, stmts[i]))

\* `if ask_button and query.strip(): ... elif ask_button and not
\* query.strip(): ...` followed by the History display and the Chart
\* Builder.
QuerySection(state, df, query, ask_button, behaviour, chart) ==
    LET asked == ask_button /\ QueryGiven(query)
        blank == ask_button /\ ~QueryGiven(query)
        handler ==
            IF asked THEN AskHandler(df, query, behaviour)
            ELSE IF blank
            THEN << Notice(153, "warning", <<"Please enter a question.">>) >>
            ELSE <<>>
        after == Effects(handler, 1, Started(state))
    IN  [stmts |-> handler \o DisplayHistory(after.state.messages)
                   \o ChartSection(df, chart),
         outcome |-> IF asked
                     THEN (IF Invoke(LLMMessages(df, query), behaviour).raised
                           THEN "failed"
                           ELSE "answered")
                     ELSE IF blank THEN "rejected"
                     ELSE "rendered"]

\* The `if api_key:` branch: session-state initialisation, the query box
\* and the two buttons, the Clear History handler (which ends the run at
\* st.rerun()), the query section.
ChatSection(state, df, query, ask_button, clear_button, behaviour, chart) ==
    LET init == IF state.has_messages
                THEN << Yield(<<67>>) >>
                ELSE << Yield(<<67>>), Stmt(<<68>>, "init", <<>>) >>
        controls == << Yield(<<71, 74, 75>>), Widget(86, "query"), Yield(<<92>>),
                       Widget(94, "ask"), Widget(96, "clear") >>
        ready == [has_messages |-> TRUE, messages |-> state.messages]
    IN  IF clear_button
        THEN [stmts |-> init \o controls \o ClearBranch, outcome |-> "rerun"]
        ELSE LET section == QuerySection(ready, df, query, ask_button,
                                         behaviour, chart)
             IN  [stmts |-> init \o controls \o section.stmts,
                  outcome |-> section.outcome]

\* The path of one run of the script below line 10, with api_key = key, and
\* the branch it ends in when it is not abandoned.
PageRun(file, key, state, query, ask_button, clear_button, behaviour, chart) ==
    LET top == << Yield(<<13, 19, 20, 28>>) >>
        preview == << Yield(<<36, 37, 40, 42, 44, 46, 49, 56>>) >>
    IN  IF ~FilePresent(file)
        THEN [stmts |-> top \o << Notice(259, "info",
                                         <<"Upload a CSV file to get started!">>),
                                  Yield(<<261>>) >>,
              outcome |-> "welcome"]
        ELSE LET csv == read_csv(file)
             IN  IF csv.raised
                 THEN [stmts |-> top \o
                           << Notice(254, "error", <<"Error reading CSV file">>),
                              Notice(255, "info",
                                     <<"Please make sure your CSV file is properly formatted.">>) >>,
                       outcome |-> "csv_error"]
                 ELSE IF ~KeyPresent(key)
                 THEN [stmts |-> top \o preview \o
                           << Notice(241, "error", <<"OpenAI API key not found!">>),
                              Notice(242, "info", <<"Please add your API key">>),
                              Yield(<<245, 246>>) >>,
                       outcome |-> "no_key"]
                 ELSE LET chat == ChatSection(state, csv.df, query, ask_button,
                                              clear_button, behaviour, chart)
                      IN  [stmts |-> top \o preview \o chat.stmts,
                           outcome |-> chat.outcome]

\* Every way the run can end from its i-th statement on: abandoned at a
\* yield point, before that statement takes effect, or ended by itself.
RECURSIVE Stops(_, _, _, _)
Stops(stmts, i, rs, outcome) ==
    IF i > Len(stmts) THEN {[rs EXCEPT !.outcome = outcome]}
    ELSE (IF Yields(stmts[i]) THEN {rs} ELSE {})
         \cup Stops(stmts, i + 1, Apply(rs, stmts[i]), outcome)

\* The ways one run of the script can end: load_dotenv() and os.getenv()
\* first, as in every run, then the page.
ScriptRun(file, env, dotenv, state, query, ask_button, clear_button, behaviour, chart) ==
    LET key == load_dotenv(env, dotenv)
        page == PageRun(file, key, state, query, ask_button, clear_button,
                        behaviour, chart)
    IN  {[api_key |-> key, state |-> run.state, llm_calls |-> run.llm_calls,
          outcome |-> run.outcome, alerts |-> run.alerts,
          history_view |-> run.history_view, created |-> run.created,
          cleared |-> run.cleared, rerun |-> run.rerun] :
            run \in Stops(page.stmts, 1, Started(state), page.outcome)}

\* ------------------------------------------------------------------ state
VARIABLES
    environ,         \* OPENAI_API_KEY in os.environ of the server process
    api_key,         \* os.getenv("OPENAI_API_KEY") as the last run read it
    uploaded_file,   \* value of the file uploader
    query,           \* text of the query box
    widgets,         \* the widgets of the chat page that are in the browser
    ask_button,      \* the Ask button in the last run
    clear_button,    \* the Clear History button in that run
    is_rerun,        \* that run was asked for by st.rerun()
    behaviour,       \* what llm.invoke did in that run
    session_state,   \* st.session_state: whether "messages" is set, and it
    llm_calls,       \* the message lists that run passed to llm.invoke
    outcome,         \* the branch of the script that run ended in
    alerts,          \* the notices that run sent to the page
    history_view,    \* the Chat History block that run sent to the page
    rerun_requested, \* that run ended in st.rerun() and its rerun is due
    after_failure,   \* history: a request failed and none succeeded since
    exchanges,       \* history: the <<question, answer>> pairs of the successful
                     \* cycles since History was last emptied
    sent_for         \* history: per History entry, the question text of the
                     \* request that produced it (NoRequest for a user entry)

vars == <<environ, api_key, uploaded_file, query, widgets, ask_button, clear_button,
          is_rerun, behaviour, session_state, llm_calls, outcome, alerts,
          history_view, rerun_requested, after_failure, exchanges, sent_for>>

\* The History: st.session_state.messages, empty while it is not yet set.
messages == session_state.messages

\* llm.invoke is not reached in runs that no Ask click caused, nor in runs
\* abandoned before the call.
NotContacted == [raises |-> TRUE, content |-> <<>>]

NoRequest == <<"-">>

\* The question text carried by a request: the content of its last message.
QuestionOf(request) == request[Len(request)].content

\* The .env file is outside the program and may hold any value of
\* OPENAI_API_KEY when a run reads it.  One content of the file is taken
\* for each key the run can end up with.
DotenvReads(env) ==
    LET keys == {load_dotenv(env, d) : d \in ApiKeys}
    IN  {CHOOSE d \in ApiKeys : load_dotenv(env, d) = k : k \in keys}

\* The effect of one run: on the widget values file and q, with the given
\* buttons, the reply b of the collaborator and the Generate Chart click.
Interact(file, q, ask, clear, b, chart, rerun) ==
    \E dotenv \in DotenvReads(environ) :
    \E run \in ScriptRun(file, environ, dotenv, session_state, q, ask,
                         clear, b, chart) :
        LET completed == run.outcome \notin {"interrupted", "rerun"}
            added == IF run.cleared THEN 0
                     ELSE Len(run.state.messages) - Len(messages)
            called == run.llm_calls # <<>>
        IN  /\ environ' = run.api_key
            /\ api_key' = run.api_key
            /\ uploaded_file' = file
            /\ query' = IF completed /\ "query" \notin run.created THEN <<>> ELSE q
            /\ widgets' = IF completed THEN run.created
                          ELSE widgets \cup run.created
            /\ ask_button' = ask
            /\ clear_button' = clear
            /\ is_rerun' = rerun
            /\ behaviour' = IF called THEN b ELSE NotContacted
            /\ session_state' = run.state
            /\ llm_calls' = run.llm_calls
            /\ outcome' = run.outcome
            /\ alerts' = run.alerts
            /\ history_view' = run.history_view
            /\ rerun_requested' = run.rerun
            /\ after_failure' = CASE called /\ b.raises -> TRUE
                                  [] added = 2 -> FALSE
                                  [] OTHER -> after_failure
            /\ exchanges' = CASE run.cleared -> <<>>
                              [] added = 2 -> Append(exchanges, <<q, b.content>>)
                              [] OTHER -> exchanges
            /\ sent_for' = CASE run.cleared -> <<>>
                             [] added = 2 ->
                                   sent_for \o <<NoRequest, QuestionOf(run.llm_calls[1])>>
                             [] added = 1 -> sent_for \o <<NoRequest>>
                             [] OTHER -> sent_for

\* The state after the first run of a session, with no file uploaded yet.
Init ==
    /\ \E e \in ApiKeys, dotenv \in ApiKeys : environ = load_dotenv(e, dotenv)
    /\ api_key = environ
    /\ uploaded_file = NoFile
    /\ query = <<>>
    /\ widgets = {}
    /\ ask_button = FALSE
    /\ clear_button = FALSE
    /\ is_rerun = FALSE
    /\ behaviour = NotContacted
    /\ session_state = [has_messages |-> FALSE, messages |-> <<>>]
    /\ llm_calls = <<>>
    /\ outcome = "welcome"
    /\ alerts = <<Alert("info", <<"Upload a CSV file to get started!">>)>>
    /\ history_view = <<>>
    /\ rerun_requested = FALSE
    /\ after_failure = FALSE
    /\ exchanges = <<>>
    /\ sent_for = <<>>

\* The user uploads (or replaces) the CSV file.  The uploader (28) is on
\* every page.
UploadFile ==
    \E f \in Files :
        Interact(f, query, FALSE, FALSE, NotContacted, NoChart, FALSE)

\* The user removes the uploaded file.
RemoveFile ==
    /\ uploaded_file # NoFile
    /\ Interact(NoFile, query, FALSE, FALSE, NotContacted, NoChart, FALSE)

\* The user edits the query box (86) and presses Enter.
TypeQuery ==
    /\ "query" \in widgets
    /\ \E q \in Queries :
          /\ q # query
          /\ Interact(uploaded_file, q, FALSE, FALSE, NotContacted, NoChart, FALSE)

\* The user clicks Ask (94) with the text the query box holds.
Ask ==
    /\ "ask" \in widgets
    /\ QueryGiven(query) => Len(messages) + 2 <= MaxMessages
    /\ \E b \in IF QueryGiven(query) THEN LLMBehaviours ELSE {NotContacted} :
          Interact(uploaded_file, query, TRUE, FALSE, b, NoChart, FALSE)

\* The user clicks Clear History (96).
ClearHistory ==
    /\ "clear" \in widgets
    /\ Interact(uploaded_file, query, FALSE, TRUE, NotContacted, NoChart, FALSE)

\* The run st.rerun() (101) asked for: the script again, every button False.
Rerun ==
    /\ rerun_requested
    /\ Interact(uploaded_file, query, FALSE, FALSE, NotContacted, NoChart, TRUE)

\* The user clicks Generate Chart (186) with some choice of the selectors;
\* one click is taken for each way the plotting code can end.
GenerateChart ==
    /\ "chart" \in widgets
    /\ LET clicks == IF uploaded_file.parses
                     THEN ChartClicks(read_csv(uploaded_file).df)
                     ELSE {[NoChart EXCEPT !.clicked = TRUE]}
       IN  \E r \in {c.raises : c \in clicks} :
              Interact(uploaded_file, query, FALSE, FALSE, NotContacted,
                       CHOOSE c \in clicks : c.raises = r, FALSE)

Next ==
    \/ UploadFile
    \/ RemoveFile
    \/ TypeQuery
    \/ Ask
    \/ ClearHistory
    \/ Rerun
    \/ GenerateChart

Spec == Init /\ [][Next]_vars

\* ----------------------------------------------------------------- claims
\* A file is uploaded, it parsed, and an API key is present.
ChatPreconditions ==
    /\ uploaded_file # NoFile
    /\ uploaded_file.parses
    /\ api_key # "None"
    /\ api_key # ""

IsPrefix(s, t) == Len(s) <= Len(t) /\ SubSeq(t, 1, Len(s)) = s

\* The History that holds exactly the given exchanges, in order.
RECURSIVE HistoryOf(_)
HistoryOf(pairs) ==
    IF pairs = <<>> THEN <<>>
    ELSE <<Message("user", pairs[1][1]), Message("assistant", pairs[1][2])>>
         \o HistoryOf(Tail(pairs))

\* C1: when the collaborator call of a submitted non-empty question raises,
\* the History after the request equals the History before it.
C1_FailedRequestLeavesHistory ==
    [][(llm_calls' # <<>> /\ behaviour'.raises) => messages' = messages]_vars

\* C2: a submission whose question is empty after trimming whitespace leaves
\* the History as it was and makes no call to the collaborator.
C2_BlankQuestionRejected ==
    [][(ask_button' /\ Strip(query') = <<>>)
        => (messages' = messages /\ llm_calls' = <<>>)]_vars

C2_Witness ==
    /\ ChatPreconditions
    /\ ask_button
    /\ query = <<" ", "NBSP">>
    /\ outcome = "rejected"
    /\ messages # <<>>

\* C3: the History is exactly the exchanges of the successful cycles since it
\* was last empty, in submission order, whatever rejected or failed
\* submissions came in between.
C3_HistoryIsTheSuccessfulExchanges ==
    messages = HistoryOf(exchanges)

\* C4: every message list passed to the collaborator is the instruction
\* system message, then the labelled data-profile system message of the
\* current table, then either only the new question as a user message or the
\* previous History followed by it; it holds no other system message.
C4_RequestShape ==
    [][\A i \in DOMAIN llm_calls' :
          LET request == llm_calls'[i]
              rest == SubSeq(request, 3, Len(request))
              question == <<Message("user", query')>>
          IN  /\ Len(request) >= 3
              /\ request[1].role = "system"
              /\ request[1].content = SYSTEM_PROMPT
              /\ request[2].role = "system"
              /\ request[2].content =
                     <<"Here's the data you're analyzing:">>
                     \o data_summary(read_csv(uploaded_file').df)
              /\ \A j \in DOMAIN rest : rest[j].role # "system"
              /\ (rest = question \/ rest = messages \o question)]_vars

C4_Witness ==
    /\ Len(llm_calls) = 1
    /\ uploaded_file = PeopleCsv
    /\ query = <<" ", "a", "\t">>
    /\ Len(messages) = 4

\* C5: the first non-empty submission after a failed request for which the
\* collaborator succeeds invokes it exactly once, with that question, and
\* appends the question and the returned answer as the newest two entries.
C5_NotPoisonedAfterFailure ==
    [][(/\ after_failure
        /\ ChatPreconditions'
        /\ ask_button'
        /\ Strip(query') # <<>>
        /\ ~behaviour'.raises)
        => (/\ Len(llm_calls') = 1
            /\ QuestionOf(llm_calls'[1]) = query'
            /\ messages' = messages \o <<Message("user", query'),
                                        Message("assistant", behaviour'.content)>>)]_vars

\* C6: a run makes at most one call to the collaborator, none unless Ask was
\* clicked, and a call that raises ends the request with the error shown.
C6_NoRetry ==
    /\ Len(llm_calls) <= 1
    /\ ~ask_button => llm_calls = <<>>
    /\ (llm_calls # <<>> /\ behaviour.raises)
         => (alerts # <<>> /\ alerts[1].kind = "error")

\* C7: every interaction other than Clear History leaves the previous History
\* as a prefix of the new one.
C7_AppendOnlyBetweenClears ==
    [][clear_button' \/ IsPrefix(messages, messages')]_vars

C7_Witness ==
    /\ ~clear_button
    /\ outcome = "failed"
    /\ Len(messages) = 3

\* C8: after a Clear History click the History is empty, whatever it held
\* and also when the click follows another clear, and the run that
\* st.rerun() asks for renders no Chat History block.
C8_ClearEmptiesHistory ==
    /\ clear_button => messages = <<>>
    /\ is_rerun => (messages = <<>> /\ history_view = <<>>)

\* C9: the collaborator is called, and a submission changes the History, only
\* when a file is uploaded and parsed, an API key is present, Ask was clicked
\* and the question is non-empty after trimming; without a key or with a file
\* that fails to parse there is no call and no History change at all.
C9_GuardedByPreconditions ==
    [][/\ (llm_calls' # <<>> \/ (ask_button' /\ messages' # messages))
            => (ChatPreconditions' /\ ask_button' /\ Strip(query') # <<>>)
       /\ ~ChatPreconditions' => (llm_calls' = <<>> /\ messages' = messages)]_vars

C9_Witness ==
    /\ uploaded_file = BrokenCsv
    /\ outcome = "csv_error"
    /\ api_key = "sk-test"
    /\ ~ask_button
    /\ Len(messages) = 3
    /\ llm_calls = <<>>

\* C10: every assistant entry of the History directly follows a user entry
\* whose content is the question sent in the request that produced the
\* answer; so the History never starts with an assistant entry and never
\* holds two in a row.
C10_AnswerFollowsItsQuestion ==
    /\ Len(sent_for) = Len(messages)
    /\ \A i \in DOMAIN messages :
          messages[i].role = "assistant"
              => (/\ i > 1
                  /\ messages[i - 1].role = "user"
                  /\ messages[i - 1].content = sent_for[i])

C10_Witness ==
    /\ Len(messages) = 4
    /\ messages[2].role = "assistant"
    /\ messages[3].content = <<" ", "a", "\t">>
    /\ messages[4].role = "assistant"

====
